---- MODULE Spec2Model ----
(***************************************************************************)
(* A model of packages/keychain/src/components/funding/purchase/           *)
(* StripeCheckout.tsx: the StripeCheckout component (its three state       *)
(* cells, the handlers wired to the payment widget and to the Purchase     *)
(* control, the asynchronous handleSubmit) and CostBreakdown with its      *)
(* formatCurrency.                                                         *)
(*                                                                         *)
(* The UI runs on one event loop.  handleSubmit is an async function: the  *)
(* part up to `await stripe.confirmPayment(...)` runs inside the click     *)
(* event, the part after the await runs as one continuation when the       *)
(* promise settles.  Each of the two parts is one action.  React renders   *)
(* the state written by an event before the next event is dispatched, so   *)
(* the `disabled` attribute a click meets is the one computed from the     *)
(* current state.                                                          *)
(***************************************************************************)
EXTENDS Integers, Sequences, FiniteSets, TLC

\* Bounds of the model.
MaxSubmissions == 3  \* confirmation calls started in one behaviour
MaxCents == 12       \* the cents values 0..MaxCents are all tried

VARIABLES
    mounted,       \* the component instance is mounted
    stripe,        \* useStripe() returns a Stripe object (TRUE) or null (FALSE)
    elements,      \* useElements() returns an elements object (TRUE) or null
    isLoading,     \* useState<boolean>(true)
    isSubmitting,  \* useState<boolean>(false)
    error,         \* useState<Error>(): <<>> is undefined, <<e>> holds the value e
    pending,       \* stripe.confirmPayment calls started and not yet settled
    readyFired,    \* history: the widget has fired a ready event
    nPassed,       \* history: handleSubmit invocations that passed the guard
    nConfirm,      \* history: stripe.confirmPayment calls made
    nComplete,     \* history: onComplete invocations
    nEscaped,      \* history: exceptions that left handleSubmit (rejected promise)
    last,          \* history: the last step, its inputs and the state before it
    atComplete,    \* history: what held when onComplete was last invoked, <<>> if never
    changedInFlight, \* history: a change event came during the latest confirmation call
    price,         \* the price prop (PricingDetails)
    display        \* the three strings CostBreakdown renders, <<>> before it renders

vars == <<mounted, stripe, elements, isLoading, isSubmitting, error, pending,
          readyFired, nPassed, nConfirm, nComplete, nEscaped, last, atComplete,
          changedInFlight, price, display>>

costVars == <<price, display>>

compVars == <<mounted, stripe, elements, isLoading, isSubmitting, error, pending,
              readyFired, nPassed, nConfirm, nComplete, nEscaped, last, atComplete,
              changedInFlight>>

-----------------------------------------------------------------------------
(* Values.                                                                 *)

\* The substring the catch block looks for (line 71).
HrefText == "Failed to set the 'href' property"

\* The fixed message of line 72.
PaymentUnsupported == "Payment unsupported"

\* s.includes(sub) on strings (line 71): sub occurs in s at some position.
includes(s, sub) ==
    \E i \in 1..(Len(s) - Len(sub) + 1) : SubSeq(s, i, i + Len(sub) - 1) = sub

\* A JavaScript value that can be raised or stored in `error`.  kind "Error"
\* is an object whose .message is the string text; kind "string" is a string
\* primitive (its .message is undefined); kind "nullish" is undefined or null
\* (reading .message of it raises a TypeError).
ErrorValue(m) == [kind |-> "Error", text |-> m]
StringValue(s) == [kind |-> "string", text |-> s]
Nullish == [kind |-> "nullish", text |-> ""]
NoValue == [kind |-> "none", text |-> ""]

\* new Error(message) (lines 64, 72): an undefined message gives message "".
NewError(m) == ErrorValue(IF m = <<>> THEN "" ELSE m[1])

\* The messages a rejected confirmation can carry; StripeError.message is
\* optional, <<>> is the error result without one.
StripeMessages == {<<"card_declined">>, <<>>}

HrefMessage == "SecurityError: Failed to set the 'href' property on 'Location'"

\* The values stripe.confirmPayment can raise.
RaisedValues ==
    { ErrorValue(HrefMessage), ErrorValue("Failed to fetch"),
      StringValue("timeout"), Nullish }

\* The values the onComplete prop can raise.
CallbackRaised == { ErrorValue("callback failed"), ErrorValue(HrefText), Nullish }

\* How one stripe.confirmPayment call settles: it resolves with no error field,
\* resolves with an error field, or raises.
Resolutions ==
    { [kind |-> "ok", msg |-> <<>>, value |-> NoValue] }
    \cup { [kind |-> "error", msg |-> m, value |-> NoValue] : m \in StripeMessages }
    \cup { [kind |-> "raises", msg |-> <<>>, value |-> v] : v \in RaisedValues }

NoResolution == [kind |-> "none", msg |-> <<>>, value |-> NoValue]

\* What the onComplete prop does when called: it returns, or raises.
Callbacks ==
    { [kind |-> "returns", value |-> NoValue] }
    \cup { [kind |-> "raises", value |-> v] : v \in CallbackRaised }

NotCalled == [kind |-> "notcalled", value |-> NoValue]

\* The description the ErrorAlert shows (lines 104-110): error.message when
\* error is set, nothing otherwise.
Displayed == IF error = <<>> THEN <<>> ELSE <<error[1].text>>

-----------------------------------------------------------------------------
(* CostBreakdown.                                                          *)

\* The literals of line 140: cents / 100 and toFixed(2).
CentsPerUnit == 100
FractionDigits == 2

RECURSIVE Pow10(_)
Pow10(k) == IF k = 0 THEN 1 ELSE 10 * Pow10(k - 1)

Digit(d) ==
    CASE d = 0 -> "0" [] d = 1 -> "1" [] d = 2 -> "2" [] d = 3 -> "3"
      [] d = 4 -> "4" [] d = 5 -> "5" [] d = 6 -> "6" [] d = 7 -> "7"
      [] d = 8 -> "8" [] d = 9 -> "9"

\* The decimal digits of a natural number, no leading zeros ("0" for 0).
RECURSIVE Digits(_)
Digits(n) == IF n < 10 THEN Digit(n) ELSE Digits(n \div 10) \o Digit(n % 10)

RECURSIVE PadLeft(_, _)
PadLeft(s, len) == IF Len(s) >= len THEN s ELSE PadLeft("0" \o s, len)

\* Number.prototype.toFixed(f) applied to the non-negative number num/den:
\* n is the integer for which n / 10^f - x is closest to zero (the larger one
\* on a tie); its digits are padded with zeros to f + 1 places and the point
\* goes before the last f.  cents / 100 is computed in double precision; for
\* the integers of the model the double is within 2^-53 (relative) of the
\* quotient, far from any tie, so n is the one of the exact quotient.
toFixed(num, den, f) ==
    LET n == (2 * num * Pow10(f) + den) \div (2 * den)
        m == PadLeft(Digits(n), f + 1)
        k == Len(m)
    IN  IF f = 0 THEN m
        ELSE SubSeq(m, 1, k - f) \o "." \o SubSeq(m, k - f + 1, k)

\* Mutant of formatCurrency: the cents part is written without toFixed's padding.
formatCurrencyNoPad(cents) ==
    "$" \o Digits(cents \div CentsPerUnit) \o "." \o Digits(cents % CentsPerUnit)

\* line 139-141
formatCurrency(cents) == "$" \o toFixed(cents, CentsPerUnit, FractionDigits)

\* lines 134-168: the three amounts of the card.
CostBreakdown(costInCents, processingFeeInCents, totalInCents) ==
    << [cost  |-> formatCurrency(costInCents),
        fee   |-> formatCurrency(processingFeeInCents),
        total |-> formatCurrency(totalInCents)] >>

\* The cents values tried: a full initial range and the sizes around the
\* places where the number of digits changes.
CentsValues == (0..MaxCents) \cup {58, 99, 100, 105, 999, 1000, 1057}

Prices ==
    [baseCostInCents : CentsValues, processingFeeInCents : CentsValues,
     totalInCents : CentsValues]

ExamplePrice ==
    [baseCostInCents |-> 999, processingFeeInCents |-> 58, totalInCents |-> 1057]

-----------------------------------------------------------------------------
(* StripeCheckout.                                                         *)

\* Mutant of Disabled: isSubmitting left out of the disjunction.
DisabledIgnoringSubmitting == ~stripe \/ ~elements \/ isLoading

\* Mutant of Disabled: isLoading left out of the disjunction.
DisabledIgnoringLoading == isSubmitting \/ ~stripe \/ ~elements

\* line 118: the disabled attribute of the Purchase button.
Disabled == isSubmitting \/ ~stripe \/ ~elements \/ isLoading

\* The state a step started from, kept in `last`.
Snapshot ==
    [stripe |-> stripe, elements |-> elements, isLoading |-> isLoading,
     isSubmitting |-> isSubmitting, error |-> error, pending |-> pending,
     nPassed |-> nPassed, nConfirm |-> nConfirm, nComplete |-> nComplete,
     nEscaped |-> nEscaped]

Step(op, res, cb) == [op |-> op, res |-> res, cb |-> cb, pre |-> Snapshot]

\* lines 37-39 and the hooks of lines 34-35 at the first render.
InitComponent ==
    /\ mounted = TRUE
    /\ stripe \in BOOLEAN
    /\ elements \in BOOLEAN
    /\ isLoading = TRUE
    /\ isSubmitting = FALSE
    /\ error = <<>>
    /\ pending = 0
    /\ readyFired = FALSE
    /\ nPassed = 0
    /\ nConfirm = 0
    /\ nComplete = 0
    /\ nEscaped = 0
    /\ last = Step("mount", NoResolution, NotCalled)
    /\ atComplete = <<>>
    /\ changedInFlight = FALSE

\* line 34: useStripe() starts returning the Stripe object.
StripeLoads ==
    /\ mounted /\ ~stripe
    /\ stripe' = TRUE
    /\ last' = Step("stripe", NoResolution, NotCalled)
    /\ UNCHANGED <<mounted, elements, isLoading, isSubmitting, error, pending,
                   readyFired, nPassed, nConfirm, nComplete, nEscaped>>
    /\ UNCHANGED <<atComplete, changedInFlight>>
    /\ UNCHANGED costVars

\* line 35: useElements() starts returning the elements object.
ElementsLoad ==
    /\ mounted /\ ~elements
    /\ elements' = TRUE
    /\ last' = Step("elements", NoResolution, NotCalled)
    /\ UNCHANGED <<mounted, stripe, isLoading, isSubmitting, error, pending,
                   readyFired, nPassed, nConfirm, nComplete, nEscaped>>
    /\ UNCHANGED <<atComplete, changedInFlight>>
    /\ UNCHANGED costVars

\* The PaymentElement of lines 95-100 creates its widget from the elements
\* object of the context, so it fires events only once that object (and the
\* Stripe object it was made from) exists, and only while mounted.
WidgetLive == mounted /\ stripe /\ elements

\* Mutant of onReady: the flag is toggled instead of cleared.
onReadyToggle == isLoading' = ~isLoading

\* line 98: onReady={() => setIsLoading(false)}
onReady == isLoading' = FALSE

\* Mutant of onChange: the error is kept while a submission is in flight.
onChangeUnlessSubmitting == error' = IF isSubmitting THEN error ELSE <<>>

\* line 99: onChange={() => setError(undefined)}
onChange == error' = <<>>

PaymentElementReady ==
    /\ WidgetLive
    /\ onReady
    /\ readyFired' = TRUE
    /\ last' = Step("ready", NoResolution, NotCalled)
    /\ UNCHANGED <<mounted, stripe, elements, isSubmitting, error, pending,
                   nPassed, nConfirm, nComplete, nEscaped>>
    /\ UNCHANGED <<atComplete, changedInFlight>>
    /\ UNCHANGED costVars

PaymentElementChange ==
    /\ WidgetLive
    /\ onChange
    /\ last' = Step("change", NoResolution, NotCalled)
    /\ UNCHANGED <<mounted, stripe, elements, isLoading, isSubmitting, pending,
                   readyFired, nPassed, nConfirm, nComplete, nEscaped>>
    /\ changedInFlight' = (changedInFlight \/ pending > 0)
    /\ UNCHANGED atComplete
    /\ UNCHANGED costVars

\* Mutant of handleSubmit: the guard tests stripe alone.
handleSubmitStripeOnly ==
    IF ~stripe
    THEN /\ last' = Step("submit-noop", NoResolution, NotCalled)
         /\ UNCHANGED <<isSubmitting, pending, nPassed, nConfirm, changedInFlight>>
    ELSE /\ isSubmitting' = TRUE
         /\ nPassed' = nPassed + 1
         /\ nConfirm' = nConfirm + 1
         /\ pending' = pending + 1
         /\ changedInFlight' = FALSE
         /\ last' = Step("submit", NoResolution, NotCalled)

\* Mutant of handleSubmit: setIsSubmitting(true) is missing.
handleSubmitNoFlag ==
    IF ~stripe \/ ~elements
    THEN /\ last' = Step("submit-noop", NoResolution, NotCalled)
         /\ UNCHANGED <<isSubmitting, pending, nPassed, nConfirm, changedInFlight>>
    ELSE /\ isSubmitting' = isSubmitting
         /\ nPassed' = nPassed + 1
         /\ nConfirm' = nConfirm + 1
         /\ pending' = pending + 1
         /\ changedInFlight' = FALSE
         /\ last' = Step("submit", NoResolution, NotCalled)

\* lines 41-61: handleSubmit up to the await.  The guard of line 44 returns
\* with nothing written; past it isSubmitting is set and confirmPayment called.
handleSubmit ==
    IF ~stripe \/ ~elements
    THEN /\ last' = Step("submit-noop", NoResolution, NotCalled)
         /\ UNCHANGED <<isSubmitting, pending, nPassed, nConfirm, changedInFlight>>
    ELSE /\ isSubmitting' = TRUE
         /\ nPassed' = nPassed + 1
         /\ nConfirm' = nConfirm + 1
         /\ pending' = pending + 1
         /\ changedInFlight' = FALSE
         /\ last' = Step("submit", NoResolution, NotCalled)

\* line 119: a user click on the Purchase button; a disabled button receives
\* no click.
ClickPurchase ==
    /\ mounted
    /\ ~Disabled
    /\ nConfirm < MaxSubmissions
    /\ handleSubmit
    /\ UNCHANGED <<mounted, stripe, elements, isLoading, error, readyFired,
                   nComplete, nEscaped>>
    /\ UNCHANGED atComplete
    /\ UNCHANGED costVars

\* handleSubmit reached while stripe or elements is missing: the case the
\* guard of line 44 is written for (the handler invoked other than by a click
\* on the enabled button).
SubmitUnavailable ==
    /\ mounted
    /\ ~stripe \/ ~elements
    /\ handleSubmit
    /\ UNCHANGED <<mounted, stripe, elements, isLoading, error, readyFired,
                   nComplete, nEscaped>>
    /\ UNCHANGED atComplete
    /\ UNCHANGED costVars

\* Mutant of CatchBlock: the message is compared for equality, not inclusion.
CatchBlockExactMatch(e, s) ==
    IF e.kind # "Error"
    THEN [s EXCEPT !.escaped = TRUE]
    ELSE IF e.text = HrefText
         THEN [s EXCEPT !.error = <<NewError(<<PaymentUnsupported>>)>>]
         ELSE [s EXCEPT !.error = <<e>>]

\* lines 69-76: the catch block for the raised value e, from the state s of
\* the handler's effects.  (e as Error).message.includes(...) itself raises a
\* TypeError when e.message is not a string; that exception leaves the handler.
CatchBlock(e, s) ==
    IF e.kind # "Error"
    THEN [s EXCEPT !.escaped = TRUE]
    ELSE IF includes(e.text, HrefText)
         THEN [s EXCEPT !.error = <<NewError(<<PaymentUnsupported>>)>>]
         ELSE [s EXCEPT !.error = <<e>>]

\* Mutant of TryCatch: onComplete is called twice on success.
TryCatchCompleteTwice(res, cb, s) ==
    CASE res.kind = "raises" -> CatchBlock(res.value, s)
      [] res.kind = "error" -> [s EXCEPT !.error = <<NewError(res.msg)>>]
      [] res.kind = "ok" -> [s EXCEPT !.completed = 2]

\* Mutant of TryCatch: the return of line 65 is missing, so an error result
\* falls through to onComplete.
TryCatchNoReturn(res, cb, s) ==
    CASE res.kind = "raises" -> CatchBlock(res.value, s)
      [] res.kind = "error" ->
            [s EXCEPT !.error = <<NewError(res.msg)>>, !.completed = 1]
      [] res.kind = "ok" ->
            LET called == [s EXCEPT !.completed = 1]
            IN  IF cb.kind = "raises" THEN CatchBlock(cb.value, called) ELSE called

\* Mutant of TryCatch: onComplete is called after the try statement, so what
\* it raises is not caught.
TryCatchCallbackOutsideTry(res, cb, s) ==
    CASE res.kind = "raises" -> CatchBlock(res.value, s)
      [] res.kind = "error" -> [s EXCEPT !.error = <<NewError(res.msg)>>]
      [] res.kind = "ok" ->
            LET called == [s EXCEPT !.completed = 1,
                                    !.atComplete = <<[isSubmitting |-> s.isSubmitting,
                                                      pending |-> s.pending]>>]
            IN  IF cb.kind = "raises" THEN [called EXCEPT !.escaped = TRUE] ELSE called

\* lines 50-76: the try block after the await and its catch, for the way the
\* confirmation settled (res) and the way onComplete behaves if called (cb).
\* onComplete (line 68) is called with the state as the await left it.
TryCatch(res, cb, s) ==
    CASE res.kind = "raises" -> CatchBlock(res.value, s)
      [] res.kind = "error" -> [s EXCEPT !.error = <<NewError(res.msg)>>]
      [] res.kind = "ok" ->
            LET called == [s EXCEPT !.completed = 1,
                                    !.atComplete = <<[isSubmitting |-> s.isSubmitting,
                                                      pending |-> s.pending]>>]
            IN  IF cb.kind = "raises" THEN CatchBlock(cb.value, called) ELSE called

\* Mutant of Finally: isSubmitting is reset on the success path only.
FinallySuccessOnly(s) ==
    IF s.completed = 1
    THEN [s EXCEPT !.isSubmitting = FALSE]
    ELSE s

\* lines 77-79: finally { setIsSubmitting(false) }
Finally(s) == [s EXCEPT !.isSubmitting = FALSE]

\* Mutant of ConfirmationSettles: a failed confirmation is called again.
ConfirmationSettlesWithRetry(res, cb) ==
    /\ pending > 0
    /\ LET s0 == [error |-> error, isSubmitting |-> isSubmitting,
                  pending |-> pending - 1, completed |-> 0, escaped |-> FALSE,
                  atComplete |-> <<>>]
           s == Finally(TryCatch(res, cb, s0))
       IN  /\ error' = s.error
           /\ isSubmitting' = s.isSubmitting
           /\ pending' = IF s.completed = 0 /\ nConfirm < MaxSubmissions
                         THEN pending ELSE s.pending
           /\ nConfirm' = IF s.completed = 0 /\ nConfirm < MaxSubmissions
                         THEN nConfirm + 1 ELSE nConfirm
           /\ nComplete' = nComplete + s.completed
           /\ nEscaped' = nEscaped + (IF s.escaped THEN 1 ELSE 0)
           /\ atComplete' = IF s.atComplete = <<>> THEN atComplete ELSE s.atComplete
    /\ last' = Step("settle", res, cb)
    /\ UNCHANGED <<mounted, stripe, elements, isLoading, readyFired, nPassed>>
    /\ UNCHANGED changedInFlight
    /\ UNCHANGED costVars

\* Mutant of ConfirmationSettles: the continuation is dropped after unmount.
ConfirmationSettlesCancelled(res, cb) ==
    /\ pending > 0
    /\ LET s0 == [error |-> error, isSubmitting |-> isSubmitting,
                  pending |-> pending - 1, completed |-> 0, escaped |-> FALSE,
                  atComplete |-> <<>>]
           s == IF mounted THEN Finally(TryCatch(res, cb, s0)) ELSE s0
       IN  /\ error' = s.error
           /\ isSubmitting' = s.isSubmitting
           /\ pending' = s.pending
           /\ nComplete' = nComplete + s.completed
           /\ nEscaped' = nEscaped + (IF s.escaped THEN 1 ELSE 0)
           /\ atComplete' = IF s.atComplete = <<>> THEN atComplete ELSE s.atComplete
    /\ last' = Step("settle", res, cb)
    /\ UNCHANGED <<mounted, stripe, elements, isLoading, readyFired, nPassed,
                   nConfirm>>
    /\ UNCHANGED changedInFlight
    /\ UNCHANGED costVars

\* Mutant of ConfirmationSettles: a change event during the call makes the
\* continuation keep the cleared error.
ConfirmationSettlesSuppressedByChange(res, cb) ==
    /\ pending > 0
    /\ LET s0 == [error |-> error, isSubmitting |-> isSubmitting,
                  pending |-> pending - 1, completed |-> 0, escaped |-> FALSE,
                  atComplete |-> <<>>]
           s == Finally(TryCatch(res, cb, s0))
       IN  /\ error' = IF changedInFlight THEN error ELSE s.error
           /\ isSubmitting' = s.isSubmitting
           /\ pending' = s.pending
           /\ nComplete' = nComplete + s.completed
           /\ nEscaped' = nEscaped + (IF s.escaped THEN 1 ELSE 0)
           /\ atComplete' = IF s.atComplete = <<>> THEN atComplete ELSE s.atComplete
    /\ last' = Step("settle", res, cb)
    /\ UNCHANGED <<mounted, stripe, elements, isLoading, readyFired, nPassed,
                   nConfirm>>
    /\ UNCHANGED changedInFlight
    /\ UNCHANGED costVars

\* lines 55-79: the continuation of handleSubmit when the confirmation call
\* settles.  It runs whether or not the component is still mounted.
ConfirmationSettles(res, cb) ==
    /\ pending > 0
    /\ LET s0 == [error |-> error, isSubmitting |-> isSubmitting,
                  pending |-> pending - 1, completed |-> 0, escaped |-> FALSE,
                  atComplete |-> <<>>]
           s == Finally(TryCatch(res, cb, s0))
       IN  /\ error' = s.error
           /\ isSubmitting' = s.isSubmitting
           /\ pending' = s.pending
           /\ nComplete' = nComplete + s.completed
           /\ nEscaped' = nEscaped + (IF s.escaped THEN 1 ELSE 0)
           /\ atComplete' = IF s.atComplete = <<>> THEN atComplete ELSE s.atComplete
    /\ last' = Step("settle", res, cb)
    /\ UNCHANGED <<mounted, stripe, elements, isLoading, readyFired, nPassed,
                   nConfirm>>
    /\ UNCHANGED changedInFlight
    /\ UNCHANGED costVars

\* The parent removes the component.
Unmount ==
    /\ mounted
    /\ mounted' = FALSE
    /\ last' = Step("unmount", NoResolution, NotCalled)
    /\ UNCHANGED <<stripe, elements, isLoading, isSubmitting, error, pending,
                   readyFired, nPassed, nConfirm, nComplete, nEscaped>>
    /\ UNCHANGED <<atComplete, changedInFlight>>
    /\ UNCHANGED costVars

Settle ==
    \E res \in Resolutions :
        \E cb \in (IF res.kind = "ok" THEN Callbacks ELSE {NotCalled}) :
            ConfirmationSettles(res, cb)

Init ==
    /\ InitComponent
    /\ price = ExamplePrice
    /\ display = CostBreakdown(price.baseCostInCents, price.processingFeeInCents,
                               price.totalInCents)

Next ==
    \/ StripeLoads
    \/ ElementsLoad
    \/ PaymentElementReady
    \/ PaymentElementChange
    \/ ClickPurchase
    \/ SubmitUnavailable
    \/ Settle
    \/ Unmount

Spec == Init /\ [][Next]_vars

\* CostBreakdown alone: any price prop, rendered once.
InitCost ==
    /\ InitComponent
    /\ stripe = FALSE
    /\ elements = FALSE
    /\ price \in Prices
    /\ display = <<>>

RenderCostBreakdown ==
    /\ display = <<>>
    /\ display' = CostBreakdown(price.baseCostInCents, price.processingFeeInCents,
                                price.totalInCents)
    /\ UNCHANGED price
    /\ UNCHANGED compVars

SpecCost == InitCost /\ [][RenderCostBreakdown]_vars

-----------------------------------------------------------------------------
(* Properties.                                                             *)

\* The last step was the continuation of handleSubmit for a settled call.
Settled == last.op = "settle"

\* The settled call failed: an error result, or a raised value.
Failed == Settled /\ last.res.kind \in {"error", "raises"}

\* C1: at most one stripe.confirmPayment call is in flight at any time: no
\* click, ready or change event or settled call leads to a second call being
\* started while an earlier one has not yet resolved or raised.
C1_AtMostOneInFlight == pending <= 1

\* A later call is in flight, with the Purchase button disabled by it.
C1_Witness == mounted /\ pending = 1 /\ nConfirm >= 2 /\ isSubmitting /\ Disabled

\* C2 as claimed: after a call that resolved without an error field (and an
\* onComplete that returned), onComplete has been called exactly once for it and
\* error is unset, whatever the state before.
C2_SuccessLeavesErrorUnset ==
    (Settled /\ last.res.kind = "ok" /\ last.cb.kind = "returns") =>
        /\ nComplete = last.pre.nComplete + 1
        /\ error = <<>>

\* C2 amended: after a call that resolved without an error field, onComplete
\* has been called exactly once for it, and when onComplete returned error is
\* what it was when the call resolved: the success path does not write it.
C2_SuccessLeavesErrorAsItWas ==
    (Settled /\ last.res.kind = "ok") =>
        /\ nComplete = last.pre.nComplete + 1
        /\ (last.cb.kind = "returns" => error = last.pre.error)

\* A resubmission succeeded while the error of the earlier failure was shown.
C2_Witness ==
    /\ Settled /\ last.res.kind = "ok" /\ last.cb.kind = "returns"
    /\ last.pre.error = <<NewError(<<"card_declined">>)>>
    /\ error = last.pre.error
    /\ nComplete = 1

\* C3: after a call that resolved with an error result carrying message m,
\* the displayed error message is m, isSubmitting is false and onComplete was
\* not called for that submission.
C3_ErrorResultShown ==
    (Settled /\ last.res.kind = "error" /\ last.res.msg # <<>>) =>
        /\ Displayed = last.res.msg
        /\ ~isSubmitting
        /\ nComplete = last.pre.nComplete

C3_Witness ==
    /\ Settled /\ last.res.kind = "error" /\ last.res.msg = <<"card_declined">>
    /\ Displayed = <<"card_declined">>
    /\ last.pre.isSubmitting /\ ~isSubmitting

\* C4: after a call that raised a value with a message: if the message
\* contains "Failed to set the 'href' property" the displayed error is exactly
\* "Payment unsupported", otherwise it is the raised message unchanged; either
\* way isSubmitting is false and onComplete was not called.
C4_RaisedMessageShown ==
    (Settled /\ last.res.kind = "raises" /\ last.res.value.kind = "Error") =>
        /\ Displayed = IF includes(last.res.value.text, HrefText)
                       THEN <<"Payment unsupported">>
                       ELSE <<last.res.value.text>>
        /\ ~isSubmitting
        /\ nComplete = last.pre.nComplete

\* The raised message holds the href text inside a longer message.
C4_Witness ==
    /\ Settled /\ last.res.kind = "raises"
    /\ last.res.value = ErrorValue(HrefMessage)
    /\ HrefMessage # HrefText
    /\ Displayed = <<"Payment unsupported">>
    /\ ~isSubmitting

\* C5: every error arising in a submission (an error result, a raised value of
\* any shape, a raising onComplete) is caught inside handleSubmit and shown as
\* the displayed error; no exception leaves handleSubmit.
C5_EveryErrorCaught ==
    (Settled /\ (last.res.kind \in {"error", "raises"} \/ last.cb.kind = "raises")) =>
        /\ nEscaped = last.pre.nEscaped
        /\ error # <<>>

\* C6: handleSubmit run while stripe or elements is unavailable changes
\* nothing: isLoading, isSubmitting and error are as before, no confirmation
\* call is made or left pending and onComplete is not called.
C6_UnavailableSubmitIsNoOp ==
    (last.op \in {"submit", "submit-noop"}
        /\ (~last.pre.stripe \/ ~last.pre.elements)) =>
        /\ isLoading = last.pre.isLoading
        /\ isSubmitting = last.pre.isSubmitting
        /\ error = last.pre.error
        /\ pending = last.pre.pending
        /\ nConfirm = last.pre.nConfirm
        /\ nPassed = last.pre.nPassed
        /\ nComplete = last.pre.nComplete

\* handleSubmit has run with stripe available and elements not.
C6_Witness ==
    /\ last.op = "submit-noop"
    /\ last.pre.stripe /\ ~last.pre.elements
    /\ ~isSubmitting /\ pending = 0

\* C7: the Purchase control is disabled whenever isLoading is true, and it is
\* enabled whenever a ready event has fired and no submission is in flight.
C7_DisabledWhileLoading ==
    mounted =>
        /\ (isLoading => Disabled)
        /\ ((readyFired /\ pending = 0) => ~Disabled)

\* Both cases: enabled again after a submission, and loading before ready.
C7_Witness ==
    /\ mounted /\ readyFired /\ pending = 0 /\ nConfirm >= 1 /\ ~Disabled
    /\ ~isLoading

\* C8: after a failed submission attempt has settled (an error result or a
\* raised value), the Purchase control is enabled again and a click on it
\* starts a new submission, whether or not error is set and whatever it holds.
C8_RetryAfterFailure ==
    (mounted /\ Failed) =>
        /\ ~Disabled
        /\ (nConfirm < MaxSubmissions => ENABLED ClickPurchase)

\* A new submission was started with the error of the failed one still set.
C8_Witness ==
    /\ last.op = "submit"
    /\ last.pre.error = <<NewError(<<"card_declined">>)>>
    /\ nConfirm >= 2 /\ pending = 1

\* C9: a change event of the payment widget, in any state, leaves error unset
\* and isLoading and isSubmitting as they were, makes no confirmation call and
\* does not call onComplete.
C9_ChangeClearsErrorOnly ==
    last.op = "change" =>
        /\ error = <<>>
        /\ isLoading = last.pre.isLoading
        /\ isSubmitting = last.pre.isSubmitting
        /\ pending = last.pre.pending
        /\ nConfirm = last.pre.nConfirm
        /\ nComplete = last.pre.nComplete

\* A change event cleared an error while a confirmation call was in flight.
C9_Witness ==
    /\ last.op = "change" /\ last.pre.error # <<>> /\ error = <<>>
    /\ pending = 1 /\ isSubmitting

\* "$", the quotient c div 100, a point, and c mod 100 in two digits.
ExpectedCurrency(c) ==
    "$" \o ToString(c \div 100) \o "."
        \o (IF c % 100 < 10 THEN "0" ELSE "") \o ToString(c % 100)

\* C10: every amount CostBreakdown shows is "$", then the integer quotient of
\* the cents by 100, a decimal point and the remainder in exactly two digits;
\* the cost, the processing fee and the total are each formatted from their
\* own prop.
C10_TwoDecimalDollars ==
    display # <<>> =>
        /\ display[1].cost = ExpectedCurrency(price.baseCostInCents)
        /\ display[1].fee = ExpectedCurrency(price.processingFeeInCents)
        /\ display[1].total = ExpectedCurrency(price.totalInCents)

\* The example of the specification: 999, 58 and 1057 cents.
C10_Witness ==
    /\ price = ExamplePrice
    /\ display = << [cost |-> "$9.99", fee |-> "$0.58", total |-> "$10.57"] >>

\* The error the continuation sets for a failed call that carries a message:
\* the error result's message, or the raised message through the href test.
FailureError(res) ==
    IF res.kind = "error"
    THEN <<NewError(res.msg)>>
    ELSE IF includes(res.value.text, HrefText)
         THEN <<ErrorValue("Payment unsupported")>>
         ELSE <<res.value>>

\* The failed call resolved with an error result or raised a value with a message.
FailedWithMessage ==
    /\ Settled
    /\ \/ last.res.kind = "error"
       \/ last.res.kind = "raises" /\ last.res.value.kind = "Error"

\* C11 as claimed: isSubmitting is true exactly while a confirmation call is in
\* flight, and is false whenever no call is pending, the moment onComplete is
\* invoked included.
C11_SubmittingOnlyInFlight ==
    /\ isSubmitting <=> pending > 0
    /\ atComplete # <<>> => ~atComplete[1].isSubmitting

\* C11 amended: between events isSubmitting is true exactly while a
\* confirmation call is in flight; when onComplete is invoked the call has
\* settled and isSubmitting is still true, the finally block resetting it only
\* after onComplete has returned or raised.
C11_SubmittingUntilFinally ==
    /\ isSubmitting <=> pending > 0
    /\ atComplete # <<>> => (atComplete[1].isSubmitting /\ atComplete[1].pending = 0)

\* onComplete has just been invoked and the handler has finished.
C11_Witness ==
    /\ Settled /\ last.res.kind = "ok"
    /\ atComplete = <<[isSubmitting |-> TRUE, pending |-> 0]>>
    /\ ~isSubmitting /\ pending = 0

\* C12: isLoading is true until a ready event has fired, is false after every
\* ready event, and no step sets it back to true: its only change is from true
\* to false, made by the first ready event.
C12_LoadingClearedOnce ==
    [][ /\ (~readyFired => isLoading)
        /\ (last'.op = "ready" => ~isLoading')
        /\ (~isLoading => ~isLoading')
        /\ ((isLoading /\ ~isLoading') => (last'.op = "ready" /\ ~readyFired)) ]_vars

\* A second ready event, after a submission has settled, with isLoading false.
C12_Witness ==
    /\ last.op = "ready" /\ ~last.pre.isLoading /\ ~isLoading
    /\ nConfirm >= 1 /\ pending = 0

Phase(loading, submitting) ==
    IF loading THEN "Initializing" ELSE IF submitting THEN "Submitting" ELSE "Ready"

\* C13: the component moves Initializing -> Ready -> Submitting -> Ready only:
\* a confirmation call is started only from a state with isLoading false,
\* isSubmitting false and stripe and elements available, and isLoading and
\* isSubmitting are never both true.
C13_PhaseOrder ==
    /\ ~(isLoading /\ isSubmitting)
    /\ nConfirm # last.pre.nConfirm =>
          /\ ~last.pre.isLoading /\ ~last.pre.isSubmitting
          /\ last.pre.stripe /\ last.pre.elements
    /\ LET from == Phase(last.pre.isLoading, last.pre.isSubmitting)
           to == Phase(isLoading, isSubmitting)
       IN  \/ from = to
           \/ <<from, to>> \in { <<"Initializing", "Ready">>,
                                 <<"Ready", "Submitting">>,
                                 <<"Submitting", "Ready">> }

\* The component is back in Ready after its second submission.
C13_Witness ==
    /\ Settled /\ nConfirm = 2
    /\ Phase(last.pre.isLoading, last.pre.isSubmitting) = "Submitting"
    /\ Phase(isLoading, isSubmitting) = "Ready"

\* C14: the confirmation calls made are as many as the submissions that passed
\* the guard, and a call is only made by a submission, one per submission: no
\* other step (a settled call, failed or not, among them) makes one.
C14_OneCallPerSubmission ==
    /\ nConfirm = nPassed
    /\ nConfirm # last.pre.nConfirm =>
          (last.op = "submit" /\ nConfirm = last.pre.nConfirm + 1)
    /\ last.op = "submit" => nConfirm = last.pre.nConfirm + 1

\* A call failed and nothing was called again: one call made, none pending.
C14_Witness ==
    /\ Settled /\ last.res.kind \in {"error", "raises"}
    /\ nConfirm = 1 /\ nPassed = 1 /\ pending = 0 /\ nComplete = 0

\* C15: unmounting cancels nothing: a call in flight at unmount can still
\* settle, and its continuation then runs as when mounted: without an error it
\* invokes onComplete, on a failure it sets error, and it resets isSubmitting.
C15_NoCancellation ==
    /\ (~mounted /\ pending > 0) => ENABLED Settle
    /\ (Settled /\ ~mounted) =>
          /\ pending = last.pre.pending - 1
          /\ ~isSubmitting
          /\ last.res.kind = "ok" => nComplete = last.pre.nComplete + 1
          /\ FailedWithMessage => (error = FailureError(last.res) /\ last.pre.isSubmitting)

\* onComplete was invoked by a call that settled after the unmount.
C15_Witness ==
    /\ ~mounted /\ Settled /\ last.res.kind = "ok"
    /\ nComplete = last.pre.nComplete + 1
    /\ last.pre.isSubmitting /\ ~isSubmitting

\* C16: when the call resolves without error and onComplete raises a value
\* with a message, the catch block handles it as it does a failed
\* confirmation: the message is displayed ("Payment unsupported" if it
\* contains the href text), isSubmitting is false and nothing leaves
\* handleSubmit.
C16_CallbackRaiseCaught ==
    (Settled /\ last.res.kind = "ok" /\ last.cb.kind = "raises"
        /\ last.cb.value.kind = "Error") =>
        /\ Displayed = IF includes(last.cb.value.text, HrefText)
                       THEN <<"Payment unsupported">>
                       ELSE <<last.cb.value.text>>
        /\ ~isSubmitting
        /\ nEscaped = last.pre.nEscaped
        /\ nComplete = last.pre.nComplete + 1

C16_Witness ==
    /\ Settled /\ last.res.kind = "ok"
    /\ last.cb.value = ErrorValue("callback failed")
    /\ Displayed = <<"callback failed">>
    /\ nEscaped = 0

\* C17: when change events came while the call was in flight, the error right
\* after the failed call is still the error of that call: the changes neither
\* suppress nor alter it.
C17_ChangeDoesNotSuppressFailure ==
    (FailedWithMessage /\ changedInFlight) => error = FailureError(last.res)

\* The error of an earlier failure was cleared by a change during the second
\* call, whose failure is then shown.
C17_Witness ==
    /\ FailedWithMessage /\ changedInFlight
    /\ last.res.msg = <<"card_declined">>
    /\ last.pre.error = <<>>
    /\ nConfirm = 2 /\ nComplete = 0
    /\ Displayed = <<"card_declined">>

====
